---- MODULE Spec2Model ----
(***************************************************************************)
(* Electron tunnelling visualiser (src/main.py).                           *)
(*                                                                         *)
(* The program is one numeric function, transmission_coefficient, two      *)
(* plotting functions that sweep it over fixed ranges, and a Streamlit     *)
(* script main() that reads three sliders and calls all three.             *)
(*                                                                         *)
(* Numbers.  The source computes in IEEE-754 binary64.  The model computes *)
(* in a binary floating-point format of the same design with a narrower    *)
(* significand and exponent range: Prec significand bits, exponents        *)
(* -ExpRange..ExpRange, gradual underflow, round-to-nearest-even, signed    *)
(* infinities and NaN.  A value is a record                                *)
(*     [c |-> "fin", s |-> sign, m |-> significand, x |-> exponent]        *)
(* standing for s * m * 2^x, or has c = "inf" / "nan".  c = "exc" stands    *)
(* for a raised Python exception; no operation of the source produces it   *)
(* for scalar floats (NumPy floating-point errors are warnings).  Zero has  *)
(* no sign: no result of the source depends on the sign of a zero.        *)
(***************************************************************************)
EXTENDS Integers, Sequences, FiniteSets, TLC

\* ------------------------------------------------------------ bounds
\* Significand width of the model's floating-point format (binary64: 53).
Prec == 10
\* Largest exponent magnitude of the format (binary64: about 1074).
ExpRange == 220
\* Points per sweep axis (the source's linspace calls use 100).
NumPoints == 4
\* Longest array argument handed to transmission_coefficient.
MaxLen == 2

EMin == -ExpRange
EMax == ExpRange

\* ------------------------------------------------------------ format
Pow2(n) == 2 ^ n

MaxOf(a, b) == IF a >= b THEN a ELSE b
MinOf(a, b) == IF a <= b THEN a ELSE b

\* Number of binary digits of n (0 <= n < 2^31), by bisection.
BitLen4(n) == IF n < 4 THEN (IF n < 2 THEN n ELSE 2) ELSE (IF n < 8 THEN 3 ELSE 4)
BitLen8(n) == IF n < 16 THEN BitLen4(n) ELSE 4 + BitLen4(n \div 16)
BitLen16(n) == IF n < 256 THEN BitLen8(n) ELSE 8 + BitLen8(n \div 256)
BitLen(n) == IF n < 65536 THEN BitLen16(n) ELSE 16 + BitLen16(n \div 65536)

Zero == [c |-> "fin", s |-> 1, m |-> 0, x |-> EMin]
Inf(sg) == [c |-> "inf", s |-> sg, m |-> 0, x |-> 0]
NaN == [c |-> "nan", s |-> 1, m |-> 0, x |-> 0]
Exc == [c |-> "exc", s |-> 1, m |-> 0, x |-> 0]

IsZero(a) == a.c = "fin" /\ a.m = 0
IsNaN(a) == a.c = "nan"
IsExc(a) == a.c = "exc"

\* q + r/(2*half) rounded to the nearest integer, ties to even.
RoundTie(q, r, half) == IF r > half \/ (r = half /\ q % 2 = 1) THEN q + 1 ELSE q

\* n / 2^d rounded to the nearest integer, ties to even (n >= 0, d >= 1).
RoundShift(n, d) ==
    IF d > 30 THEN 0 ELSE RoundTie(n \div Pow2(d), n % Pow2(d), Pow2(d - 1))

\* sg * m * 2^x with m already in the significand's range: overflow to inf.
Finite(sg, m, x) ==
    IF x > EMax THEN Inf(sg) ELSE [c |-> "fin", s |-> sg, m |-> m, x |-> x]

\* A rounded significand q at exponent x; rounding may carry into 2^Prec.
PackRounded(sg, q, x) ==
    IF q = 0 THEN Zero
    ELSE IF q = Pow2(Prec) THEN Finite(sg, Pow2(Prec - 1), x + 1)
    ELSE Finite(sg, q, x)

\* sg * n * 2^x when d low digits of n must go (d > 0), or when n fits and
\* is normalised by a left shift that keeps the exponent >= EMin (d <= 0).
PackBy(sg, n, x, d) ==
    IF d <= 0
    THEN Finite(sg, n * Pow2(MinOf(Prec - BitLen(n), x - EMin)),
                x - MinOf(Prec - BitLen(n), x - EMin))
    ELSE PackRounded(sg, RoundShift(n, d), x + d)

\* The format's value nearest to sg * n * 2^x (n >= 0): the rounding every
\* arithmetic operation ends with.
Pack(sg, n, x) ==
    IF n = 0 THEN Zero ELSE PackBy(sg, n, x, MaxOf(BitLen(n) - Prec, EMin - x))

FromInt(n) == IF n >= 0 THEN Pack(1, n, 0) ELSE Pack(-1, -n, 0)

Neg(a) == IF a.c \in {"nan", "exc"} \/ IsZero(a) THEN a ELSE [a EXCEPT !.s = -a.s]
Abs(a) == IF a.c \in {"nan", "exc"} THEN a ELSE [a EXCEPT !.s = 1]
WithSign(sg, a) == IF sg = 1 THEN a ELSE Neg(a)

\* a * b
FMul(a, b) ==
    IF IsExc(a) \/ IsExc(b) THEN Exc
    ELSE IF IsNaN(a) \/ IsNaN(b) THEN NaN
    ELSE IF a.c = "inf" \/ b.c = "inf"
         THEN IF IsZero(a) \/ IsZero(b) THEN NaN ELSE Inf(a.s * b.s)
    ELSE Pack(a.s * b.s, a.m * b.m, a.x + b.x)

\* The quotient of finite nonzero a and b from the integer quotient of
\* a.m * 2^k by b.m, with a sticky digit for the remainder.
FDivBy(a, b, k) ==
    Pack(a.s * b.s,
         2 * ((a.m * Pow2(k)) \div b.m) + (IF (a.m * Pow2(k)) % b.m = 0 THEN 0 ELSE 1),
         a.x - b.x - k - 1)

\* a / b on NumPy floats: a zero divisor gives inf or nan, never an exception.
FDiv(a, b) ==
    IF IsExc(a) \/ IsExc(b) THEN Exc
    ELSE IF IsNaN(a) \/ IsNaN(b) THEN NaN
    ELSE IF a.c = "inf" THEN (IF b.c = "inf" THEN NaN ELSE Inf(a.s * b.s))
    ELSE IF b.c = "inf" THEN Zero
    ELSE IF IsZero(b) THEN (IF IsZero(a) THEN NaN ELSE Inf(a.s))
    ELSE IF IsZero(a) THEN Zero
    ELSE FDivBy(a, b, Prec + 2 + BitLen(b.m) - BitLen(a.m))

\* The signed integer n at exponent x.
PackSigned(n, x) == IF n >= 0 THEN Pack(1, n, x) ELSE Pack(-1, -n, x)

\* hi + lo for finite nonzero operands with hi.x >= lo.x; an operand too
\* small to reach the rounding position counts as a sticky digit.
FAddAligned(hi, lo) ==
    IF hi.x - lo.x > Prec + 2
    THEN PackSigned(hi.s * hi.m * 4 + lo.s, hi.x - 2)
    ELSE PackSigned(hi.s * hi.m * Pow2(hi.x - lo.x) + lo.s * lo.m, lo.x)

\* a + b
FAdd(a, b) ==
    IF IsExc(a) \/ IsExc(b) THEN Exc
    ELSE IF IsNaN(a) \/ IsNaN(b) THEN NaN
    ELSE IF a.c = "inf" THEN (IF b.c = "inf" /\ b.s # a.s THEN NaN ELSE a)
    ELSE IF b.c = "inf" THEN b
    ELSE IF IsZero(a) THEN b
    ELSE IF IsZero(b) THEN a
    ELSE IF a.x >= b.x THEN FAddAligned(a, b) ELSE FAddAligned(b, a)

FSub(a, b) == FAdd(a, Neg(b))

\* floor(sqrt(n)) by Newton's iteration from a start r >= sqrt(n).
RECURSIVE ISqrtFrom(_, _)
ISqrtFrom(n, r) ==
    IF (r + n \div r) \div 2 >= r THEN r
    ELSE ISqrtFrom(n, (r + n \div r) \div 2)

ISqrt(n) == IF n = 0 THEN 0 ELSE ISqrtFrom(n, Pow2((BitLen(n) + 1) \div 2))

\* sqrt(n) * 2^x from the integer root r of n, with a sticky digit.
FSqrtRoot(n, r, x) == Pack(1, 2 * r + (IF r * r = n THEN 0 ELSE 1), x - 1)

\* sqrt(a) for finite a > 0 from the integer a.m * 2^k, a.x - k even.
FSqrtBy(a, k) == FSqrtRoot(a.m * Pow2(k), ISqrt(a.m * Pow2(k)), (a.x - k) \div 2)

\* math.sqrt: ValueError for a negative argument.
FSqrtRaising(a) ==
    IF IsExc(a) THEN Exc
    ELSE IF IsNaN(a) THEN NaN
    ELSE IF IsZero(a) THEN Zero
    ELSE IF a.s = -1 THEN Exc
    ELSE IF a.c = "inf" THEN a
    ELSE FSqrtBy(a, 2 * Prec + 2 - BitLen(a.m) + ((a.x + BitLen(a.m)) % 2))

\* np.sqrt: NaN for a negative argument (a warning, not an exception).
FSqrt(a) ==
    IF IsExc(a) THEN Exc
    ELSE IF IsNaN(a) THEN NaN
    ELSE IF IsZero(a) THEN Zero
    ELSE IF a.s = -1 THEN NaN
    ELSE IF a.c = "inf" THEN a
    ELSE FSqrtBy(a, 2 * Prec + 2 - BitLen(a.m) + ((a.x + BitLen(a.m)) % 2))

\* a < b, False when either side is NaN.
FLt(a, b) ==
    IF a.c \in {"nan", "exc"} \/ b.c \in {"nan", "exc"} THEN FALSE
    ELSE IF a.c = "inf" THEN a.s = -1 /\ ~(b.c = "inf" /\ b.s = -1)
    ELSE IF b.c = "inf" THEN b.s = 1
    ELSE IF a.s # b.s THEN a.s = -1 /\ ~(IsZero(a) /\ IsZero(b))
    ELSE IF a.s = 1 THEN a.x < b.x \/ (a.x = b.x /\ a.m < b.m)
    ELSE b.x < a.x \/ (a.x = b.x /\ b.m < a.m)

\* a <= b, False when either side is NaN.
FLe(a, b) == FLt(a, b) \/ (a = b /\ a.c \in {"fin", "inf"})

\* ------------------------------------------------------------ constants
One == FromInt(1)
Two == FromInt(2)
Four == FromInt(4)
Ten == FromInt(10)

\* n / 10: the decimal literals 0.1, 0.5, ... and the slider positions.
Tenths(n) == FDiv(FromInt(n), Ten)

\* scipy.constants (CODATA) and np.pi, each the multiple of a power of two
\* nearest to the constant among those with a ten-digit binary numerator:
\*   h   = 6.62607015e-34 J s     ~ 881 * 2^-120
\*   m_e = 9.1093837015e-31 kg    ~ 591 * 2^-109
\*   e   = 1.602176634e-19 C      ~ 757 * 2^-72
\*   pi  = 3.141592653589793      ~ 804 * 2^-8
\* and the literal 1e-9 of line 15 ~ 550 * 2^-39.
h == Pack(1, 881, -120)
m_e == Pack(1, 591, -109)
e == Pack(1, 757, -72)
pi == Pack(1, 804, -8)
Nano == Pack(1, 550, -39)

HBAR == FDiv(h, FMul(Two, pi))
ME == m_e

\* ------------------------------------------------------------ np.sinh
\* Halvings of the argument before the series, and terms of the series.
SinhDoublings == 5
SinhTerms == 10

\* The Taylor series of sinh(y)/y in Horner form, innermost term first:
\* acc becomes 1 + y2/(2i(2i+1)) * acc for i = SinhTerms down to 1 (y2 = y*y).
RECURSIVE SinhSeries(_, _, _)
SinhSeries(y2, i, acc) ==
    IF IsExc(acc) \/ i = 0 THEN acc
    ELSE SinhSeries(y2, i - 1,
                    FAdd(One, FMul(FDiv(y2, FromInt(2 * i * (2 * i + 1))), acc)))

\* sinh(2y) = 2 sinh(y) cosh(y), cosh(y) = sqrt(1 + sinh(y)^2), n times.
RECURSIVE SinhDouble(_, _)
SinhDouble(sh, n) ==
    IF IsExc(sh) \/ n = 0 THEN sh
    ELSE SinhDouble(FMul(FMul(Two, sh), FSqrt(FAdd(One, FMul(sh, sh)))), n - 1)

\* sinh(2^SinhDoublings * y) for y > 0.
SinhScaled(y) ==
    SinhDouble(FMul(y, SinhSeries(FMul(y, y), SinhTerms, One)), SinhDoublings)

\* np.sinh(a): odd, increasing, overflowing to inf; computed in the format
\* from the series on |a| / 2^SinhDoublings and the doubling formula.
FSinh(a) ==
    IF IsExc(a) THEN Exc
    ELSE IF IsNaN(a) THEN NaN
    ELSE IF a.c = "inf" \/ IsZero(a) THEN a
    ELSE WithSign(a.s, SinhScaled(FDiv(Abs(a), FromInt(Pow2(SinhDoublings)))))

\* ------------------------------------------------------------ arguments
\* An argument or result of transmission_coefficient: a scalar float
\* (arr = FALSE, one element) or a one-dimensional NumPy array.
Scalar(a) == [arr |-> FALSE, v |-> <<a>>]
Array(seq) == [arr |-> TRUE, v |-> seq]
Size(a) == Len(a.v)
Unwrap(a) == a.v[1]
\* Element i under NumPy broadcasting (a size-1 operand is repeated).
At(a, i) == IF Size(a) = 1 THEN a.v[1] ELSE a.v[i]
\* A raised exception in place of a returned value.
ValueError == Scalar(Exc)
Raised(r) == \E i \in 1..Size(r) : IsExc(r.v[i])

\* ------------------------------------------------------------ transmission_coefficient
\* Line 20 from its two factors, with 1 / (...) in place of 1 / (1 + ...).
TunnelTNoOne(ratio, sh) ==
    IF IsExc(ratio) \/ IsExc(sh) THEN Exc
    ELSE FDiv(One, FMul(ratio, FMul(sh, sh)))

\* Line 20 from its two factors, the prefactor k ** 2 / (4 * k0 ** 2) and
\* np.sinh(k * width):
\*   T = 1 / (1 + (k ** 2 / (4 * k0 ** 2)) * np.sinh(k * width) ** 2)
TunnelT(ratio, sh) ==
    IF IsExc(ratio) \/ IsExc(sh) THEN Exc
    ELSE FDiv(One, FAdd(One, FMul(ratio, FMul(sh, sh))))

\* Line 20 with k and k0 exchanged in the prefactor.
TunnelKSwapped(k, k0, width) ==
    IF IsExc(k) \/ IsExc(k0) THEN Exc
    ELSE TunnelT(FDiv(FMul(k0, k0), FMul(Four, FMul(k, k))), FSinh(FMul(k, width)))

\* Line 20 from the wavenumbers of lines 18 and 19; an exception raised by
\* either line leaves the function before line 20.
TunnelK(k, k0, width) ==
    IF IsExc(k) \/ IsExc(k0) THEN Exc
    ELSE TunnelT(FDiv(FMul(k, k), FMul(Four, FMul(k0, k0))), FSinh(FMul(k, width)))

\* Line 19: k0 = np.sqrt(2 * ME * E) / HBAR
WaveNumber(E) == FDiv(FSqrt(FMul(FMul(Two, ME), E)), HBAR)

\* Lines 18-20, the sub-barrier branch, on SI scalars; line 18 is
\*   k = np.sqrt(2 * ME * (V0 - E)) / HBAR
Tunnel(V0, E, width) == TunnelK(WaveNumber(FSub(V0, E)), WaveNumber(E), width)

\* Line 17 on scalars in eV: the sub-barrier branch is taken.
SubBarrier(V0_ev, E_ev) == FLt(FMul(E_ev, e), FMul(V0_ev, e))

\* Line 19 on a scalar in eV: the argument 2 * ME * E of np.sqrt.
Radicand(E_ev) == FMul(FMul(Two, ME), FMul(E_ev, e))

\* Line 20 on a scalar in eV: the divisor 4 * k0 ** 2.
Divisor(E_ev) ==
    FMul(Four, FMul(WaveNumber(FMul(E_ev, e)), WaveNumber(FMul(E_ev, e))))

\* Line 20 on scalars in eV: the prefactor k ** 2 / (4 * k0 ** 2).
Prefactor(V0_ev, E_ev) ==
    FDiv(FMul(WaveNumber(FSub(FMul(V0_ev, e), FMul(E_ev, e))),
              WaveNumber(FSub(FMul(V0_ev, e), FMul(E_ev, e)))),
         Divisor(E_ev))

\* The function with the branch taken element by element (np.where) instead
\* of by the if statement.
transmission_coefficient_where(V0_ev, E_ev, width_nm) ==
    LET n == MaxOf(MaxOf(Size(V0_ev), Size(E_ev)), Size(width_nm))
        el(i) == LET V0 == FMul(At(V0_ev, i), e)
                     E == FMul(At(E_ev, i), e)
                     width == FMul(At(width_nm, i), Nano)
                 IN IF FLt(E, V0) THEN Tunnel(V0, E, width) ELSE One
    IN [arr |-> V0_ev.arr \/ E_ev.arr \/ width_nm.arr, v |-> [i \in 1..n |-> el(i)]]

\* The function with the operands of the comparison exchanged (if V0 < E).
transmission_coefficient_swapped(V0_ev, E_ev, width_nm) ==
    LET V0 == FMul(At(V0_ev, 1), e)
        E == FMul(At(E_ev, 1), e)
    IN IF MaxOf(Size(E_ev), Size(V0_ev)) > 1 THEN ValueError
       ELSE IF FLt(V0, E)
       THEN [arr |-> V0_ev.arr \/ E_ev.arr \/ width_nm.arr,
             v |-> [i \in 1..Size(width_nm) |->
                        Tunnel(V0, E, FMul(width_nm.v[i], Nano))]]
       ELSE Scalar(One)

\* src/main.py:12-23.  Lines 13-15 convert element by element.  Line 17,
\* `if E < V0`, takes the truth value of the comparison: of a comparison with
\* more than one element that raises ValueError, so past line 17 V0 and E
\* have one element each and only width may have more.  Line 23 returns the
\* Python float 1.0 whatever the shapes.
transmission_coefficient(V0_ev, E_ev, width_nm) ==
    LET V0 == FMul(At(V0_ev, 1), e)
        E == FMul(At(E_ev, 1), e)
    IN IF MaxOf(Size(E_ev), Size(V0_ev)) > 1 THEN ValueError
       ELSE IF FLt(E, V0)
       THEN [arr |-> V0_ev.arr \/ E_ev.arr \/ width_nm.arr,
             v |-> [i \in 1..Size(width_nm) |->
                        Tunnel(V0, E, FMul(width_nm.v[i], Nano))]]
       ELSE Scalar(One)

\* One scalar call as the plotting code makes it: the arguments in call
\* order and the value returned.
Call(V0_ev, E_ev, width_nm) ==
    [args |-> <<V0_ev, E_ev, width_nm>>,
     ret |-> Unwrap(transmission_coefficient(Scalar(V0_ev), Scalar(E_ev), Scalar(width_nm)))]

\* ------------------------------------------------------------ NumPy helpers
\* np.linspace(start, stop, num): arange(num) * step + start with
\* step = (stop - start) / (num - 1), the last element set to stop.
Linspace(start, stop, num) ==
    LET step == FDiv(FSub(stop, start), FromInt(num - 1))
    IN [i \in 1..num |-> IF i = num THEN stop
                         ELSE FAdd(FMul(FromInt(i - 1), step), start)]

\* np.meshgrid(x, y) with indexing='ij': the transpose of the default.
MeshgridIJ(x, y) ==
    [X |-> [i \in 1..Len(y) |-> [j \in 1..Len(x) |-> x[i]]],
     Y |-> [i \in 1..Len(y) |-> [j \in 1..Len(x) |-> y[j]]]]

\* np.meshgrid(x, y), default indexing='xy': Len(y) rows of Len(x) columns,
\* X[i][j] = x[j] and Y[i][j] = y[i].
Meshgrid(x, y) ==
    [X |-> [i \in 1..Len(y) |-> [j \in 1..Len(x) |-> x[j]]],
     Y |-> [i \in 1..Len(y) |-> [j \in 1..Len(x) |-> y[i]]]]

\* The float literals 0.5 and 0.1 of the sweeps.
Half == Tenths(5)
Tenth == Tenths(1)

\* ------------------------------------------------------------ plotting
\* Line 26, line 27 / 55, line 47, line 63.
MapV0Range == Linspace(Half, Ten, NumPoints)
WidthRange == Linspace(Tenth, Two, NumPoints)
V0Range == Linspace(Tenth, Ten, NumPoints)
\* The energy range started at 0 instead of 0.1.
ERangeFromZero == Linspace(Zero, Ten, NumPoints)
ERange == Linspace(Tenth, Ten, NumPoints)

\* src/main.py:25-42.  The figure is its data: the two meshes and the map
\* handed to contourf, and the three numbers of the title; calls is the
\* matrix of the calls made at line 33.
plot_transmission_coefficient(E_ev, V0_ev, width_nm) ==
    LET mesh == Meshgrid(MapV0Range, WidthRange)
        V0_mesh == mesh.X
        width_mesh == mesh.Y
        cells == [i \in 1..Len(V0_mesh) |-> [j \in 1..Len(V0_mesh[1]) |->
                     Call(V0_mesh[i][j], E_ev, width_mesh[i][j])]]
    IN [X |-> V0_mesh, Y |-> width_mesh,
        Z |-> [i \in 1..Len(V0_mesh) |-> [j \in 1..Len(V0_mesh[1]) |-> cells[i][j].ret]],
        title |-> <<E_ev, V0_ev, width_nm>>,
        calls |-> [i \in 1..Len(V0_mesh) |-> [j \in 1..Len(V0_mesh[1]) |-> cells[i][j].args]]]

\* One axes of the second figure: the line plotted, the dashed marker, and
\* the calls that produced the line, in order.
Axes(xs, sweep, marker) ==
    [x |-> xs, y |-> [i \in 1..Len(sweep) |-> sweep[i].ret], vline |-> marker,
     calls |-> [i \in 1..Len(sweep) |-> sweep[i].args]]

\* plot_transmission_variations with the energy sweep's first two arguments
\* exchanged.
plot_transmission_variations_swapped(E_ev, V0_fixed, width_fixed) ==
    [ax1 |-> Axes(V0Range, [i \in 1..Len(V0Range) |-> Call(V0Range[i], E_ev, width_fixed)],
                  V0_fixed),
     ax2 |-> Axes(WidthRange,
                  [i \in 1..Len(WidthRange) |-> Call(V0_fixed, E_ev, WidthRange[i])],
                  width_fixed),
     ax3 |-> Axes(ERange, [i \in 1..Len(ERange) |-> Call(ERange[i], V0_fixed, width_fixed)],
                  E_ev)]

\* src/main.py:44-72: the three list comprehensions of lines 48, 56, 64.
plot_transmission_variations(E_ev, V0_fixed, width_fixed) ==
    [ax1 |-> Axes(V0Range, [i \in 1..Len(V0Range) |-> Call(V0Range[i], E_ev, width_fixed)],
                  V0_fixed),
     ax2 |-> Axes(WidthRange,
                  [i \in 1..Len(WidthRange) |-> Call(V0_fixed, E_ev, WidthRange[i])],
                  width_fixed),
     ax3 |-> Axes(ERange, [i \in 1..Len(ERange) |-> Call(V0_fixed, ERange[i], width_fixed)],
                  E_ev)]

\* ------------------------------------------------------------ state
\* The Streamlit script.  slider is the widget state, which outlives a run
\* of main(); the rest are main()'s locals, unset when a run starts.
\* The arg_* / ret / returned variables belong to a direct caller of
\* transmission_coefficient (SpecCall).
VARIABLES slider, pc, E_ev, V0_ev, width_nm, fig1, fig2, current_args, current_T,
          arg_V0, arg_E, arg_w, ret, returned

uiVars == <<slider, pc, E_ev, V0_ev, width_nm, fig1, fig2, current_args, current_T>>
callVars == <<arg_V0, arg_E, arg_w, ret, returned>>
vars == <<slider, pc, E_ev, V0_ev, width_nm, fig1, fig2, current_args, current_T,
          arg_V0, arg_E, arg_w, ret, returned>>

\* Python's None, shaped like a float so that it compares with one.
None == [c |-> "none", s |-> 1, m |-> 0, x |-> 0]
NoFig1 == [X |-> <<>>, Y |-> <<>>, Z |-> <<>>, title |-> <<>>, calls |-> <<>>]
NoAxes == [x |-> <<>>, y |-> <<>>, vline |-> None, calls |-> <<>>]
NoFig2 == [ax1 |-> NoAxes, ax2 |-> NoAxes, ax3 |-> NoAxes]
NoRet == Scalar(None)

\* Lines 79-81: st.sidebar.slider(label, min, max, default, step), in tenths.
SliderSpec ==
    [E |-> [min |-> 1, max |-> 100, value |-> 10, step |-> 1],
     V0 |-> [min |-> 5, max |-> 100, value |-> 20, step |-> 1],
     w |-> [min |-> 1, max |-> 20, value |-> 10, step |-> 1]]

\* The positions a slider can take: min, min + step, ..., up to max.
SliderPositions(name) ==
    {SliderSpec[name].min + k * SliderSpec[name].step :
        k \in 0..((SliderSpec[name].max - SliderSpec[name].min) \div SliderSpec[name].step)}

\* The positions the user moves a slider to in the checked runs: both ends,
\* one step off the low end, and the default.
UserPositions(name) ==
    {SliderSpec[name].min, SliderSpec[name].min + SliderSpec[name].step,
     SliderSpec[name].value, SliderSpec[name].max} \cap SliderPositions(name)

FreshLocals ==
    /\ E_ev = None /\ V0_ev = None /\ width_nm = None
    /\ fig1 = NoFig1 /\ fig2 = NoFig2 /\ current_args = <<>> /\ current_T = None

CallerIdle ==
    /\ arg_V0 = Scalar(One) /\ arg_E = Scalar(One) /\ arg_w = Scalar(One)
    /\ ret = NoRet /\ returned = FALSE

\* The first run of the script: every slider at its default.
Init ==
    /\ slider = [n \in {"E", "V0", "w"} |-> SliderSpec[n].value]
    /\ pc = "start"
    /\ FreshLocals
    /\ CallerIdle

\* ------------------------------------------------------------ main()
\* A slider moved without the script being run again.
SliderChangeNoRerun ==
    /\ \E n \in {"E", "V0", "w"} : \E p \in UserPositions(n) :
          /\ p # slider[n]
          /\ slider' = [slider EXCEPT ![n] = p]
    /\ UNCHANGED <<pc, E_ev, V0_ev, width_nm, fig1, fig2, current_args, current_T>>
    /\ UNCHANGED callVars

\* The user moves one slider: Streamlit abandons the run in progress and
\* runs main() again from line 74 with fresh locals.
SliderChange ==
    /\ \E n \in {"E", "V0", "w"} : \E p \in UserPositions(n) :
          /\ p # slider[n]
          /\ slider' = [slider EXCEPT ![n] = p]
    /\ pc' = "start"
    /\ E_ev' = None /\ V0_ev' = None /\ width_nm' = None
    /\ fig1' = NoFig1 /\ fig2' = NoFig2 /\ current_args' = <<>> /\ current_T' = None
    /\ UNCHANGED callVars

\* Lines 79-81.
ReadSliders ==
    /\ pc = "start"
    /\ E_ev' = Tenths(slider["E"])
    /\ V0_ev' = Tenths(slider["V0"])
    /\ width_nm' = Tenths(slider["w"])
    /\ pc' = "fig1"
    /\ UNCHANGED <<slider, fig1, fig2, current_args, current_T>>
    /\ UNCHANGED callVars

\* Lines 95-97.
PlotMap ==
    /\ pc = "fig1"
    /\ fig1' = plot_transmission_coefficient(E_ev, V0_ev, width_nm)
    /\ pc' = "fig2"
    /\ UNCHANGED <<slider, E_ev, V0_ev, width_nm, fig2, current_args, current_T>>
    /\ UNCHANGED callVars

\* Lines 99-101.
PlotVariations ==
    /\ pc = "fig2"
    /\ fig2' = plot_transmission_variations(E_ev, V0_ev, width_nm)
    /\ pc' = "current"
    /\ UNCHANGED <<slider, E_ev, V0_ev, width_nm, fig1, current_args, current_T>>
    /\ UNCHANGED callVars

\* Lines 103-104: the call for the current sliders (its arguments kept in
\* current_args) and the value shown.
ShowCurrent ==
    /\ pc = "current"
    /\ current_args' = Call(V0_ev, E_ev, width_nm).args
    /\ current_T' = Call(V0_ev, E_ev, width_nm).ret
    /\ pc' = "done"
    /\ UNCHANGED <<slider, E_ev, V0_ev, width_nm, fig1, fig2>>
    /\ UNCHANGED callVars

Next == SliderChange \/ ReadSliders \/ PlotMap \/ PlotVariations \/ ShowCurrent

Spec == Init /\ [][Next]_vars

\* ------------------------------------------------------------ a direct caller
\* The ulp of 1.0, the smallest positive and the largest finite value.
OnePlus == FAdd(One, Pack(1, 1, -(Prec - 1)))
MinPos == Pack(1, 1, EMin)
Huge == Pack(1, Pow2(Prec) - 1, EMax)

\* Scalar arguments tried: negative, zero, in the underflow range, ordinary
\* values one ulp apart, large, overflowing, infinite and NaN.
ScalarInputs ==
    {FromInt(-1), Neg(MinPos), Zero, MinPos, One, OnePlus, Two, FromInt(40),
     Huge, Inf(1), NaN}

RECURSIVE SeqsOf(_, _)
SeqsOf(S, n) ==
    IF n = 0 THEN {<<>>}
    ELSE {Append(q, a) : q \in SeqsOf(S, n - 1), a \in S}

\* Array arguments tried: every array of 1..MaxLen elements of 1.0 and 2.0.
ArrayInputs == {Array(q) : q \in UNION {SeqsOf({One, Two}, n) : n \in 1..MaxLen}}

CallInputs == {Scalar(a) : a \in ScalarInputs} \cup ArrayInputs

\* NumPy broadcasts two one-dimensional operands of equal size or with one
\* of size 1.
Broadcastable(a, b) == Size(a) = Size(b) \/ Size(a) = 1 \/ Size(b) = 1

\* The caller picks the next call's arguments.
SetV0 ==
    /\ \E a \in CallInputs : a # arg_V0 /\ arg_V0' = a
    /\ ret' = NoRet /\ returned' = FALSE
    /\ UNCHANGED <<arg_E, arg_w>>
    /\ UNCHANGED uiVars

SetE ==
    /\ \E a \in CallInputs : a # arg_E /\ arg_E' = a
    /\ ret' = NoRet /\ returned' = FALSE
    /\ UNCHANGED <<arg_V0, arg_w>>
    /\ UNCHANGED uiVars

SetW ==
    /\ \E a \in CallInputs : a # arg_w /\ arg_w' = a
    /\ ret' = NoRet /\ returned' = FALSE
    /\ UNCHANGED <<arg_V0, arg_E>>
    /\ UNCHANGED uiVars

\* transmission_coefficient(arg_V0, arg_E, arg_w) is called and returns or
\* raises.
CallTransmission ==
    /\ ~returned
    /\ Broadcastable(arg_V0, arg_E) /\ Broadcastable(arg_V0, arg_w)
    /\ Broadcastable(arg_E, arg_w)
    /\ ret' = transmission_coefficient(arg_V0, arg_E, arg_w)
    /\ returned' = TRUE
    /\ UNCHANGED <<arg_V0, arg_E, arg_w>>
    /\ UNCHANGED uiVars

NextCall == SetV0 \/ SetE \/ SetW \/ CallTransmission

SpecCall == Init /\ [][NextCall]_vars

\* ------------------------------------------------------------ properties of one call
\* The call in progress is a call with three scalars.
ScalarCall == ~arg_V0.arr /\ ~arg_E.arr /\ ~arg_w.arr

Positive(a) == FLt(Zero, a)

\* The precondition 0 < E < V0, w > 0 on the arguments of the call.
BelowBarrier ==
    /\ ScalarCall
    /\ Positive(Unwrap(arg_E)) /\ FLt(Unwrap(arg_E), Unwrap(arg_V0))
    /\ Positive(Unwrap(arg_w))

\* C1: a scalar call with E >= V0 > 0 and w > 0 returns exactly the scalar
\* 1.0, whatever the width (E = V0 included).
C1_AboveBarrierReturnsOne ==
    (/\ returned /\ ScalarCall
     /\ Positive(Unwrap(arg_V0)) /\ FLe(Unwrap(arg_V0), Unwrap(arg_E))
     /\ Positive(Unwrap(arg_w)))
    => ret = Scalar(One)

\* The boundary call V0 = 1.0, E = 1.0, w = 2.0 has returned 1.0.
C1_Witness ==
    /\ returned /\ ScalarCall
    /\ Unwrap(arg_V0) = One /\ Unwrap(arg_E) = One /\ Unwrap(arg_w) = Two
    /\ ret = Scalar(One)

\* C2 as stated: for 0 < E < V0 and w > 0 the value is strictly between 0
\* and 1, and strictly smaller at every larger width.
C2_StrictlyInsideAndDecreasing ==
    (returned /\ BelowBarrier) =>
        /\ FLt(Zero, Unwrap(ret)) /\ FLt(Unwrap(ret), One)
        /\ \A w2 \in ScalarInputs :
              FLt(Unwrap(arg_w), w2) =>
                  FLt(Call(Unwrap(arg_V0), Unwrap(arg_E), w2).ret, Unwrap(ret))

\* C2 amended: for 0 < E < V0 and w > 0 the value lies in the closed
\* interval [0, 1], or is NaN, which it is only when the prefactor
\* k ** 2 / (4 * k0 ** 2) is zero, infinite or NaN; and at a larger width it
\* is not larger (whenever neither value is NaN).
C2_InsideClosedAndNonIncreasing ==
    (returned /\ BelowBarrier) =>
        /\ IsNaN(Unwrap(ret)) \/ (FLe(Zero, Unwrap(ret)) /\ FLe(Unwrap(ret), One))
        /\ IsNaN(Unwrap(ret)) =>
              \/ Prefactor(Unwrap(arg_V0), Unwrap(arg_E)).c # "fin"
              \/ IsZero(Prefactor(Unwrap(arg_V0), Unwrap(arg_E)))
        /\ \A w2 \in ScalarInputs :
              (/\ FLt(Unwrap(arg_w), w2)
               /\ ~IsNaN(Unwrap(ret))
               /\ ~IsNaN(Call(Unwrap(arg_V0), Unwrap(arg_E), w2).ret))
              => FLe(Call(Unwrap(arg_V0), Unwrap(arg_E), w2).ret, Unwrap(ret))

\* The call V0 = 2.0, E = 1.0, w = 1.0 has returned a value strictly inside
\* (0, 1) that is strictly larger than the value at w = 2.0.
C2_Witness ==
    /\ returned /\ BelowBarrier
    /\ Unwrap(arg_V0) = Two /\ Unwrap(arg_E) = One /\ Unwrap(arg_w) = One
    /\ FLt(Zero, Unwrap(ret)) /\ FLt(Unwrap(ret), One)
    /\ FLt(Call(Two, One, Two).ret, Unwrap(ret))

\* C3 as stated: for 0 < E < V0 and w > 0 the value is strictly smaller at
\* every higher barrier (E and w fixed) and at every lower positive energy
\* (V0 and w fixed).
C3_StrictlyDecreasingInDeficit ==
    (returned /\ BelowBarrier) =>
        /\ \A V2 \in ScalarInputs :
              FLt(Unwrap(arg_V0), V2) =>
                  FLt(Call(V2, Unwrap(arg_E), Unwrap(arg_w)).ret, Unwrap(ret))
        /\ \A E2 \in ScalarInputs :
              (Positive(E2) /\ FLt(E2, Unwrap(arg_E))) =>
                  FLt(Call(Unwrap(arg_V0), E2, Unwrap(arg_w)).ret, Unwrap(ret))

\* C3 amended: for 0 < E < V0 and w > 0 the value at a higher barrier, and
\* at a lower positive energy, is not larger (whenever neither value is NaN).
C3_NonIncreasingInDeficit ==
    (returned /\ BelowBarrier /\ ~IsNaN(Unwrap(ret))) =>
        /\ \A V2 \in ScalarInputs :
              (/\ FLt(Unwrap(arg_V0), V2)
               /\ ~IsNaN(Call(V2, Unwrap(arg_E), Unwrap(arg_w)).ret))
              => FLe(Call(V2, Unwrap(arg_E), Unwrap(arg_w)).ret, Unwrap(ret))
        /\ \A E2 \in ScalarInputs :
              (/\ Positive(E2) /\ FLt(E2, Unwrap(arg_E))
               /\ ~IsNaN(Call(Unwrap(arg_V0), E2, Unwrap(arg_w)).ret))
              => FLe(Call(Unwrap(arg_V0), E2, Unwrap(arg_w)).ret, Unwrap(ret))

\* The call V0 = 2.0, E = 1.0, w = 1.0 has returned a value strictly larger
\* than the one at the higher barrier 40.0 and strictly smaller than the one
\* at the barrier one ulp above E; and at V0 = 40.0 the value at E = 1.0 is
\* strictly smaller than at E = 2.0.
C3_Witness ==
    /\ returned /\ BelowBarrier
    /\ Unwrap(arg_V0) = Two /\ Unwrap(arg_E) = One /\ Unwrap(arg_w) = One
    /\ FLt(Call(FromInt(40), One, One).ret, Unwrap(ret))
    /\ FLt(Unwrap(ret), Call(OnePlus, One, One).ret)
    /\ FLt(Call(FromInt(40), One, One).ret, Call(FromInt(40), Two, One).ret)

\* The size of the broadcast of the three arguments.
BroadcastSize == MaxOf(MaxOf(Size(arg_V0), Size(arg_E)), Size(arg_w))

\* C4 as stated: a call with an array of more than one element returns an
\* array of the broadcast size whose element i is the scalar result for
\* element i of each argument, the branch chosen per element.
C4_ArraysElementwise ==
    (returned /\ BroadcastSize > 1) =>
        /\ ret.arr /\ Size(ret) = BroadcastSize
        /\ \A i \in 1..BroadcastSize :
              ret.v[i] = Call(At(arg_V0, i), At(arg_E, i), At(arg_w, i)).ret

\* C4 amended: a call whose V0 or E has more than one element raises
\* ValueError; otherwise, when E < V0 the result has the size of the width,
\* element i being the scalar result for width element i (an array when any
\* argument is one), and when E >= V0 the result is the scalar 1.0 whatever
\* the width's shape.
C4_WidthArraysOnly ==
    returned =>
        IF Size(arg_V0) > 1 \/ Size(arg_E) > 1 THEN Raised(ret)
        ELSE IF FLt(FMul(Unwrap(arg_E), e), FMul(Unwrap(arg_V0), e))
        THEN /\ ret.arr = (arg_V0.arr \/ arg_E.arr \/ arg_w.arr)
             /\ Size(ret) = Size(arg_w)
             /\ \A i \in 1..Size(arg_w) :
                   ret.v[i] = Call(Unwrap(arg_V0), Unwrap(arg_E), arg_w.v[i]).ret
        ELSE ret = Scalar(One)

\* The call V0 = 2.0, E = 1.0, w = [1.0, 2.0] has returned a two-element
\* array of two different values.
C4_Witness ==
    /\ returned
    /\ arg_V0 = Scalar(Two) /\ arg_E = Scalar(One) /\ arg_w = Array(<<One, Two>>)
    /\ ret.arr /\ Size(ret) = 2 /\ FLt(ret.v[2], ret.v[1])

\* The call in progress divides by zero on line 20.
DividesByZero ==
    SubBarrier(Unwrap(arg_V0), Unwrap(arg_E)) /\ IsZero(Divisor(Unwrap(arg_E)))

\* C5 as stated: no scalar call raises; with E = 0 and V0 > 0 the call
\* divides by zero and returns a float; a negative E below V0 gives NaN; a
\* division by zero happens only when E = 0; E = 0 with V0 <= 0 returns 1.0.
C5_DivisionByZeroOnlyAtZero ==
    (returned /\ ScalarCall) =>
        /\ ~Raised(ret)
        /\ (IsZero(Unwrap(arg_E)) /\ Positive(Unwrap(arg_V0))) => DividesByZero
        /\ (FLt(Unwrap(arg_E), Zero) /\ FLt(Unwrap(arg_E), Unwrap(arg_V0)))
              => IsNaN(Unwrap(ret))
        /\ DividesByZero => IsZero(Unwrap(arg_E))
        /\ (IsZero(Unwrap(arg_E)) /\ FLe(Unwrap(arg_V0), Zero)) => ret = Scalar(One)

\* C5 amended: no scalar float call raises; the call divides by zero exactly
\* when it takes the sub-barrier branch and 2 * ME * E is zero (E = 0, or E
\* so small that the product underflows), and then returns 0.0 or NaN; a
\* negative E in the sub-barrier branch whose product does not underflow
\* gives NaN; outside the sub-barrier branch the call returns 1.0.
C5_DivisionByZeroAtUnderflow ==
    (returned /\ ScalarCall) =>
        /\ ~Raised(ret)
        /\ DividesByZero <=>
              (/\ SubBarrier(Unwrap(arg_V0), Unwrap(arg_E))
               /\ IsZero(Radicand(Unwrap(arg_E))))
        /\ DividesByZero => Unwrap(ret) \in {Zero, NaN}
        /\ (/\ SubBarrier(Unwrap(arg_V0), Unwrap(arg_E))
            /\ FLt(Unwrap(arg_E), Zero)
            /\ ~IsZero(Radicand(Unwrap(arg_E))))
              => IsNaN(Unwrap(ret))
        /\ ~SubBarrier(Unwrap(arg_V0), Unwrap(arg_E)) => ret = Scalar(One)

\* The call V0 = 1.0, E = 0.0, w = 1.0 has divided by zero and returned 0.0.
C5_Witness ==
    /\ returned /\ ScalarCall
    /\ Unwrap(arg_V0) = One /\ IsZero(Unwrap(arg_E)) /\ Unwrap(arg_w) = One
    /\ DividesByZero
    /\ ret = Scalar(Zero)

\* ------------------------------------------------------------ properties of main()
\* The value a slider returns at its current position.
SliderValue(name) == Tenths(slider[name])

\* C6: once plotted, the map has NumPoints rows and columns (the source's
\* 100, scaled down); cell [i][j] is the scalar call for height V0_range[j],
\* the energy E_ev and width width_range[i], which is also the orientation of
\* the two meshes handed to contourf; V0_ev and width_nm reach the title only.
C6_MapCellsAreScalarCalls ==
    fig1 # NoFig1 =>
        /\ Len(fig1.Z) = NumPoints
        /\ \A i \in 1..NumPoints :
              /\ Len(fig1.Z[i]) = NumPoints
              /\ \A j \in 1..NumPoints :
                    /\ fig1.calls[i][j] = <<MapV0Range[j], E_ev, WidthRange[i]>>
                    /\ fig1.Z[i][j] =
                          Unwrap(transmission_coefficient(Scalar(MapV0Range[j]),
                                     Scalar(E_ev), Scalar(WidthRange[i])))
                    /\ fig1.X[i][j] = MapV0Range[j]
                    /\ fig1.Y[i][j] = WidthRange[i]
        /\ fig1.title = <<E_ev, V0_ev, width_nm>>

\* The map is plotted for sliders moved off their defaults, and transposing
\* it would change it.
C6_Witness ==
    /\ fig1 # NoFig1
    /\ slider["E"] # SliderSpec["E"].value
    /\ slider["V0"] # SliderSpec["V0"].value
    /\ slider["w"] # SliderSpec["w"].value
    /\ fig1.Z[1][2] # fig1.Z[2][1]

\* C7: once plotted, each of the three sweeps holds NumPoints values (the
\* source's 100, scaled down) in range order, value i being the call with
\* (height, energy, width) = (V0_range[i], E_ev, width_fixed) for the first,
\* (V0_fixed, E_ev, width_range[i]) for the second and
\* (V0_fixed, E_range[i], width_fixed) for the third.
C7_SweepsVaryOneArgument ==
    fig2 # NoFig2 =>
        /\ Len(fig2.ax1.y) = NumPoints /\ Len(fig2.ax1.calls) = NumPoints
        /\ Len(fig2.ax2.y) = NumPoints /\ Len(fig2.ax2.calls) = NumPoints
        /\ Len(fig2.ax3.y) = NumPoints /\ Len(fig2.ax3.calls) = NumPoints
        /\ \A i \in 1..NumPoints :
              /\ fig2.ax1.calls[i] = <<V0Range[i], E_ev, width_nm>>
              /\ fig2.ax1.y[i] =
                    Unwrap(transmission_coefficient(Scalar(V0Range[i]),
                               Scalar(E_ev), Scalar(width_nm)))
              /\ fig2.ax2.calls[i] = <<V0_ev, E_ev, WidthRange[i]>>
              /\ fig2.ax2.y[i] =
                    Unwrap(transmission_coefficient(Scalar(V0_ev),
                               Scalar(E_ev), Scalar(WidthRange[i])))
              /\ fig2.ax3.calls[i] = <<V0_ev, ERange[i], width_nm>>
              /\ fig2.ax3.y[i] =
                    Unwrap(transmission_coefficient(Scalar(V0_ev),
                               Scalar(ERange[i]), Scalar(width_nm)))

\* The sweeps are plotted for sliders moved off their defaults, and the
\* energy sweep is not constant.
C7_Witness ==
    /\ fig2 # NoFig2
    /\ slider["E"] # SliderSpec["E"].value
    /\ slider["V0"] # SliderSpec["V0"].value
    /\ slider["w"] # SliderSpec["w"].value
    /\ fig2.ax3.y[1] # fig2.ax3.y[NumPoints]

\* Every call made so far by this run of main(): the cells of the map, the
\* points of the three sweeps, and the call for the current sliders.
CallsMade ==
    UNION {{fig1.calls[i][j] : j \in 1..Len(fig1.calls[i])} : i \in 1..Len(fig1.calls)}
    \cup {fig2.ax1.calls[i] : i \in 1..Len(fig2.ax1.calls)}
    \cup {fig2.ax2.calls[i] : i \in 1..Len(fig2.ax2.calls)}
    \cup {fig2.ax3.calls[i] : i \in 1..Len(fig2.ax3.calls)}
    \cup (IF current_args = <<>> THEN {} ELSE {current_args})

\* C9: every slider position is a strictly positive value, and every call
\* made from main() has three strictly positive arguments, so that no call
\* has a zero divisor or a negative radicand on lines 18-20.
C9_CallsHavePositiveArguments ==
    /\ \A n \in {"E", "V0", "w"} :
          /\ slider[n] \in SliderPositions(n)
          /\ \A p \in SliderPositions(n) : Positive(Tenths(p))
    /\ \A c \in CallsMade :
          /\ Positive(c[1]) /\ Positive(c[2]) /\ Positive(c[3])
          /\ ~IsZero(Divisor(c[2]))
          /\ ~FLt(Radicand(c[2]), Zero)

\* A run has finished with every slider at its lowest position, having made
\* the map's, the sweeps' and the current call.
C9_Witness ==
    /\ pc = "done"
    /\ \A n \in {"E", "V0", "w"} : slider[n] = SliderSpec[n].min
    /\ Cardinality(CallsMade) > 3 * NumPoints

\* C10: whatever main() has computed so far is computed from the sliders'
\* current values, and a finished run has computed everything: the locals,
\* the map, the three sweeps and the displayed transmission.
C10_OutputsFromCurrentSliders ==
    /\ E_ev # None =>
          /\ E_ev = SliderValue("E")
          /\ V0_ev = SliderValue("V0")
          /\ width_nm = SliderValue("w")
    /\ fig1 # NoFig1 =>
          fig1 = plot_transmission_coefficient(SliderValue("E"), SliderValue("V0"),
                                              SliderValue("w"))
    /\ fig2 # NoFig2 =>
          fig2 = plot_transmission_variations(SliderValue("E"), SliderValue("V0"),
                                             SliderValue("w"))
    /\ current_T # None =>
          current_T = Unwrap(transmission_coefficient(Scalar(SliderValue("V0")),
                                 Scalar(SliderValue("E")), Scalar(SliderValue("w"))))
    /\ pc = "done" => (fig1 # NoFig1 /\ fig2 # NoFig2 /\ current_T # None)

\* A run has finished after the sliders were moved to E = 0.1, V0 = 10.0,
\* w = 2.0, showing a transmission that differs from the one at the defaults.
C10_Witness ==
    /\ pc = "done"
    /\ slider["E"] = SliderSpec["E"].min
    /\ slider["V0"] = SliderSpec["V0"].max
    /\ slider["w"] = SliderSpec["w"].max
    /\ current_T # Call(Tenths(SliderSpec["V0"].value), Tenths(SliderSpec["E"].value),
                        Tenths(SliderSpec["w"].value)).ret
====
